---------------------------- MODULE Spec2Model ----------------------------
(***************************************************************************)
(* Model of crawl.py (KiloWebScraper): page classification, the listing    *)
(* and detail extractors, logo detection, the downloader's collision-free  *)
(* naming, directory scaffolding and the merge of one run's extraction     *)
(* into the persisted JSON state of an output directory.                   *)
(*                                                                         *)
(* URLs and file names are TLA+ strings; the string functions of the       *)
(* program (lower, in, endswith, urlparse().path, basename, splitext) are  *)
(* computed on them character by character.                                *)
(***************************************************************************)
EXTENDS Integers, Sequences, FiniteSets, TLC

(***************************************************************************)
(* Bounds of the model.                                                    *)
(***************************************************************************)
MaxItems == 2      \* grid items on a listing page
MaxTags == 1       \* <a href> / <img> elements on a detail page of a run
MaxElems == 2      \* <a href> / <img> elements on a page given to an extractor
MaxFiles == 3      \* files in the directory the downloader is exercised on

NONE == "<None>"   \* Python's None

(***************************************************************************)
(* String functions.                                                       *)
(***************************************************************************)
Upper == <<"A","B","C","D","E","F","G","H","I","J","K","L","M",
            "N","O","P","Q","R","S","T","U","V","W","X","Y","Z">>
Lowers == <<"a","b","c","d","e","f","g","h","i","j","k","l","m",
             "n","o","p","q","r","s","t","u","v","w","x","y","z">>

LowerChar(c) ==
    IF \E i \in 1..26 : Upper[i] = c
    THEN Lowers[CHOOSE i \in 1..26 : Upper[i] = c]
    ELSE c

RECURSIVE Lower(_)
Lower(s) ==
    IF Len(s) = 0 THEN ""
    ELSE LowerChar(SubSeq(s, 1, 1)) \o Lower(SubSeq(s, 2, Len(s)))

\* t in s
Contains(s, t) ==
    \E i \in 1..(Len(s) - Len(t) + 1) : SubSeq(s, i, i + Len(t) - 1) = t

\* s.endswith(t)
EndsWith(s, t) ==
    Len(s) >= Len(t) /\ SubSeq(s, Len(s) - Len(t) + 1, Len(s)) = t

\* s.startswith(t)
StartsWith(s, t) ==
    Len(s) >= Len(t) /\ SubSeq(s, 1, Len(t)) = t

\* s.find(t, from): index of the first occurrence at or after from, 0 if none
Find(s, t, from) ==
    LET hits == {i \in from..(Len(s) - Len(t) + 1) : SubSeq(s, i, i + Len(t) - 1) = t}
    IN IF hits = {} THEN 0 ELSE CHOOSE i \in hits : \A j \in hits : i <= j

\* s.rfind(t): index of the last occurrence, 0 if none
RFind(s, t) ==
    LET hits == {i \in 1..(Len(s) - Len(t) + 1) : SubSeq(s, i, i + Len(t) - 1) = t}
    IN IF hits = {} THEN 0 ELSE CHOOSE i \in hits : \A j \in hits : j <= i

(***************************************************************************)
(* urllib.parse and os.path, on absolute and root-relative references.     *)
(***************************************************************************)
\* index of the first character of the path of an absolute URL (Len+1 if none)
PathStart(url) ==
    LET sch == Find(url, "://", 1)
        from == IF sch = 0 THEN 1 ELSE sch + 3
        sl == Find(url, "/", from)
    IN IF sl = 0 THEN Len(url) + 1 ELSE sl

\* urlparse(url).path: from the path's start up to the query or fragment
UrlPath(url) ==
    LET st == PathStart(url)
        q == Find(url, "?", st)
        h == Find(url, "#", st)
        ends == {i \in {q, h} : i # 0}
        en == IF ends = {} THEN Len(url) + 1
              ELSE CHOOSE i \in ends : \A j \in ends : i <= j
    IN SubSeq(url, st, en - 1)

\* scheme://netloc of an absolute URL
UrlOrigin(url) == SubSeq(url, 1, PathStart(url) - 1)

\* urljoin(base, ref) for an absolute or a root-relative ref
UrlJoin(base, ref) ==
    IF Contains(ref, "://") THEN ref
    ELSE IF StartsWith(ref, "/") THEN UrlOrigin(base) \o ref
    ELSE ref

\* os.path.basename(p)
Basename(p) == SubSeq(p, RFind(p, "/") + 1, Len(p))

\* os.path.splitext(name): the extension starts at the last dot, unless
\* only dots precede it
SplitExt(name) ==
    LET d == RFind(name, ".")
        lead == d # 0 /\ \A i \in 1..d : SubSeq(name, i, i) = "."
    IN IF d = 0 \/ lead
       THEN [root |-> name, ext |-> ""]
       ELSE [root |-> SubSeq(name, 1, d - 1), ext |-> SubSeq(name, d, Len(name))]


(***************************************************************************)
(* Python values.                                                          *)
(***************************************************************************)
\* truthiness of an optional string: None and "" are false
Falsy(v) == v = NONE \/ v = ""

\* a dict is a function on its set of keys
EmptyDict == [k \in {} |-> NONE]

\* d[k] = v
Put(d, k, v) == [n \in (DOMAIN d) \cup {k} |-> IF n = k THEN v ELSE d[n]]

\* d.update(e)
Update(d, e) ==
    [n \in (DOMAIN d) \cup (DOMAIN e) |-> IF n \in DOMAIN e THEN e[n] ELSE d[n]]

\* x in list
InList(x, list) == \E i \in 1..Len(list) : list[i] = x

(***************************************************************************)
(* The scraper's own URL (--url) and the pages it can be served.           *)
(*                                                                         *)
(* A page is the part of the parsed document the program looks at:         *)
(*   productList  an element of class productList is present               *)
(*   items        the li.grid-item elements, in document order             *)
(*   extraLinks   a.grid-item-link elements outside any li.grid-item       *)
(*   h1, ogDescription, ogImage, paragraphs, listItems                     *)
(*   anchors      href of the other <a href> elements                      *)
(*   imgs         the other <img> elements                                 *)
(* An item is [link, title, img, price]: link is the href of its           *)
(* a.grid-item-link (NONE without one, "" without href), img its           *)
(* img.product-image element.  An <img> element is [tag, dataSrc, src]:    *)
(* tag is FALSE when the element is missing, dataSrc and src are NONE when *)
(* the attribute is missing.                                               *)
(***************************************************************************)
SelfUrl == "https://www.kilointernational.com/shop"

\* img.get('data-src') or img.get('src')
ImgSrc(img) == IF ~Falsy(img.dataSrc) THEN img.dataSrc ELSE img.src

(***************************************************************************)
(* is_logo_image                                                           *)
(***************************************************************************)
is_logo_image(url) ==
    IF Falsy(url) THEN FALSE
    ELSE LET url_lower == Lower(url)
         IN IF \/ Contains(url_lower, "logo")
               \/ Contains(url_lower, "_logo_")
               \/ Contains(url_lower, "logo-")
               \/ Contains(url_lower, "-logo")
            THEN TRUE
            ELSE Contains(Lower(Basename(UrlPath(url))), "logo")

(***************************************************************************)
(* detect_page_type                                                        *)
(***************************************************************************)
\* soup.find_all('a', class_='grid-item-link')
GridItemLinks(page) ==
    Cardinality({i \in 1..Len(page.items) : page.items[i].link # NONE})
        + page.extraLinks

\* detect_page_type with ">= 1" for "> 1" in the link-count fallback
detect_page_type_at_least_one(page) ==
    IF page.productList THEN "category"
    ELSE IF GridItemLinks(page) >= 1 THEN "category"
    ELSE "product_detail"

detect_page_type(page) ==
    IF page.productList THEN "category"
    ELSE IF GridItemLinks(page) > 1 THEN "category"
    ELSE "product_detail"

(***************************************************************************)
(* scrape_category_page                                                    *)
(***************************************************************************)
\* IsPngPath without the lower(): the extension compared as written
IsPngPathAsWritten(url) == EndsWith(UrlPath(url), ".png")

\* the extension test that separates block diagrams from product images
IsPngPath(url) == EndsWith(Lower(UrlPath(url)), ".png")

\* one iteration of the loop over product_items
CategoryItem(acc, item) ==
    IF item.link = NONE THEN acc
    ELSE
    LET product_link == IF item.link # "" THEN UrlJoin(SelfUrl, item.link) ELSE item.link
        product_name == IF item.title # NONE THEN item.title ELSE "Unknown Product"
        raw == IF ~item.img.tag THEN NONE ELSE ImgSrc(item.img)
        image_url == IF Falsy(raw) THEN raw ELSE UrlJoin(SelfUrl, raw)
        listed == ~Falsy(image_url) /\ ~is_logo_image(image_url)
        record == [Product |-> product_name,
                   description |-> NONE,
                   product_page_link |-> product_link,
                   image_url |-> image_url,
                   price |-> item.price,
                   pdf_link |-> NONE,
                   pdf_filename |-> NONE]
    IN [products |-> Put(acc.products, product_name, record),
        images |-> IF listed /\ ~IsPngPath(image_url)
                   THEN Append(acc.images, image_url) ELSE acc.images,
        block_diagrams |-> IF listed /\ IsPngPath(image_url)
                           THEN Append(acc.block_diagrams, image_url)
                           ELSE acc.block_diagrams]

RECURSIVE CategoryLoop(_, _, _)
CategoryLoop(items, i, acc) ==
    IF i > Len(items) THEN acc
    ELSE CategoryLoop(items, i + 1, CategoryItem(acc, items[i]))

scrape_category_page(page) ==
    CategoryLoop(page.items, 1,
                 [products |-> EmptyDict, images |-> <<>>, block_diagrams |-> <<>>])

(***************************************************************************)
(* extract_block_diagrams                                                  *)
(***************************************************************************)
\* 'static1.squarespace.com' in s or 'squarespace-cdn.com' in s
OnCdn(s) == Contains(s, "static1.squarespace.com") \/ Contains(s, "squarespace-cdn.com")

\* soup.find_all('a', href=True): the items' links, then the other anchors
AllLinks(page) ==
    LET linked == SelectSeq(page.items, LAMBDA it : it.link # NONE)
    IN [i \in 1..Len(linked) |-> linked[i].link] \o page.anchors

\* one iteration of the loop over all_links
BlockDiagramLink(block_diagrams, href) ==
    IF /\ OnCdn(href)
       /\ \/ Contains(href, "?format=")
          \/ EndsWith(href, ".png") \/ EndsWith(href, ".jpg")
          \/ EndsWith(href, ".jpeg") \/ EndsWith(href, ".gif")
       /\ ~InList(UrlJoin(SelfUrl, href), block_diagrams)
    THEN Append(block_diagrams, UrlJoin(SelfUrl, href))
    ELSE block_diagrams

RECURSIVE BlockDiagramLoop(_, _, _)
BlockDiagramLoop(links, i, acc) ==
    IF i > Len(links) THEN acc
    ELSE BlockDiagramLoop(links, i + 1, BlockDiagramLink(acc, links[i]))

extract_block_diagrams(page) == BlockDiagramLoop(AllLinks(page), 1, <<>>)


(***************************************************************************)
(* scrape_product_detail_page                                              *)
(***************************************************************************)
\* s.strip(), for spaces
RECURSIVE Strip(_)
Strip(s) ==
    IF Len(s) > 0 /\ SubSeq(s, 1, 1) = " " THEN Strip(SubSeq(s, 2, Len(s)))
    ELSE IF Len(s) > 0 /\ SubSeq(s, Len(s), Len(s)) = " " THEN Strip(SubSeq(s, 1, Len(s) - 1))
    ELSE s

\* the description built from the paragraphs longer than 20 characters
RECURSIVE JoinLong(_, _, _)
JoinLong(paragraphs, i, acc) ==
    IF i > Len(paragraphs) THEN acc
    ELSE LET text == paragraphs[i]
         IN JoinLong(paragraphs, i + 1,
                     IF text # "" /\ Len(text) > 20
                     THEN (IF acc = NONE THEN text ELSE acc \o " " \o text)
                     ELSE acc)

Description(page) ==
    IF ~Falsy(page.ogDescription) THEN page.ogDescription
    ELSE LET joined == JoinLong(page.paragraphs, 1, NONE)
         IN IF joined = NONE THEN page.ogDescription ELSE joined

\* the specification mapping built from the <li> texts holding a colon
RECURSIVE SpecsLoop(_, _, _)
SpecsLoop(listItems, i, specs) ==
    IF i > Len(listItems) THEN specs
    ELSE LET text == listItems[i]
             c == Find(text, ":", 1)
         IN SpecsLoop(listItems, i + 1,
                      IF c # 0
                      THEN Put(specs, Strip(SubSeq(text, 1, c - 1)),
                                      Strip(SubSeq(text, c + 1, Len(text))))
                      ELSE specs)

\* 'specifications': specs if specs else None
Specifications(page) ==
    LET specs == SpecsLoop(page.listItems, 1, EmptyDict)
    IN [given |-> DOMAIN specs # {}, specs |-> specs]

DetailProducts(page) ==
    IF Falsy(page.h1) THEN EmptyDict
    ELSE Put(EmptyDict, page.h1,
             [Product |-> page.h1,
              description |-> Description(page),
              product_page_link |-> SelfUrl,
              image_url |-> page.ogImage,
              specifications |-> Specifications(page),
              pdf_link |-> NONE,
              pdf_filename |-> NONE])

\* soup.find_all('img'): the items' images, then the other images
AllImgs(page) ==
    LET withImg == SelectSeq(page.items, LAMBDA it : it.img.tag)
    IN [i \in 1..Len(withImg) |-> withImg[i].img] \o page.imgs

\* one iteration of the loop over all_images
DetailImg(acc, img) ==
    LET raw == ImgSrc(img)
    IN IF Falsy(raw) \/ ~OnCdn(raw) THEN acc
       ELSE LET img_url == UrlJoin(SelfUrl, raw)
            IN IF IsPngPath(img_url)
               THEN IF ~InList(img_url, acc.block_diagrams) /\ ~is_logo_image(img_url)
                    THEN [acc EXCEPT !.block_diagrams = Append(@, img_url)]
                    ELSE acc
               ELSE IF ~InList(img_url, acc.images) /\ ~is_logo_image(img_url)
                    THEN [acc EXCEPT !.images = Append(@, img_url)]
                    ELSE acc

RECURSIVE DetailImgLoop(_, _, _)
DetailImgLoop(imgs, i, acc) ==
    IF i > Len(imgs) THEN acc
    ELSE DetailImgLoop(imgs, i + 1, DetailImg(acc, imgs[i]))

scrape_product_detail_page(page) ==
    DetailImgLoop(AllImgs(page), 1,
                  [products |-> DetailProducts(page),
                   images |-> <<>>,
                   block_diagrams |-> extract_block_diagrams(page)])

\* scrape(), lines 454-463: classify, then run the matching extractor
Extract(page) ==
    LET page_type == detect_page_type(page)
        out == IF page_type = "category" THEN scrape_category_page(page)
               ELSE scrape_product_detail_page(page)
    IN [page_type |-> page_type, products |-> out.products,
        images |-> out.images, block_diagrams |-> out.block_diagrams]


(***************************************************************************)
(* The inputs of the model: URLs, elements, pages and responses.           *)
(***************************************************************************)
U_JPG == "https://static1.squarespace.com/a/x.jpg"
U_JPG2 == "https://images.squarespace-cdn.com/b/x.jpg"
U_PAREN == "https://static1.squarespace.com/a/x(1).jpg"
U_PNG == "https://static1.squarespace.com/a/d.png"
U_UPPER == "https://images.squarespace-cdn.com/b/E.PNG"
U_LOGO == "https://static1.squarespace.com/a/Site-Logo.png"
U_FORMAT == "https://images.squarespace-cdn.com/b/pic?format=500w"
U_OFFSITE == "https://www.kilointernational.com/img/y.png"
U_BARE == "https://static1.squarespace.com/"

Img(u) == [tag |-> TRUE, dataSrc |-> NONE, src |-> u]
LazyImg(u, v) == [tag |-> TRUE, dataSrc |-> u, src |-> v]
NoImg == [tag |-> FALSE, dataSrc |-> NONE, src |-> NONE]

Item(link, title, img, price) ==
    [link |-> link, title |-> title, img |-> img, price |-> price]

BlankPage ==
    [productList |-> FALSE, items |-> <<>>, extraLinks |-> 0,
     h1 |-> NONE, ogDescription |-> NONE, ogImage |-> NONE,
     paragraphs |-> <<>>, listItems |-> <<>>,
     anchors |-> <<>>, imgs |-> <<>>, body |-> ""]

SeqsUpTo(S, n) == UNION {[1..k -> S] : k \in 0..n}

\* pages given to the extractors alone
ExtractItems ==
    {Item("/p1", "P1", Img(U_JPG), "$5"),
     Item("/p2", "P2", Img(U_PNG), NONE),
     Item("/p3", NONE, Img(U_UPPER), NONE),
     Item("/p4", "P4", LazyImg(U_LOGO, U_JPG), NONE),
     Item("", "P5", NoImg, NONE),
     Item(NONE, "P6", Img(U_JPG2), NONE)}

ExtractHrefs == {U_JPG, U_PNG, U_LOGO, U_FORMAT}

ExtractImgs ==
    {Img(U_JPG), Img(U_PNG), Img(U_UPPER), Img(U_LOGO), LazyImg("", U_OFFSITE)}

ExtractPages ==
    {[BlankPage EXCEPT !.productList = c, !.items = its, !.extraLinks = x,
                       !.body = "<ul/>"] :
        c \in BOOLEAN, its \in SeqsUpTo(ExtractItems, MaxItems), x \in 0..1}
    \cup
    {[BlankPage EXCEPT !.h1 = "P1", !.ogImage = U_LOGO,
                       !.paragraphs = <<"short", "A paragraph of some length.">>,
                       !.listItems = <<"Weight : 2 kg", "no colon">>,
                       !.anchors = as, !.imgs = ims, !.body = "<h1/>"] :
        as \in SeqsUpTo(ExtractHrefs, MaxElems), ims \in SeqsUpTo(ExtractImgs, MaxElems)}

\* pages served to the runs of the pipeline
RunItems ==
    {Item("/p1", "P1", Img(U_JPG), "$5"),
     Item("/im", "images", Img(U_PNG), NONE)}

RunHrefs == {U_JPG}
RunImgs == {Img(U_JPG)}

RunPages ==
    {[BlankPage EXCEPT !.productList = TRUE, !.items = its, !.body = "<ul/>"] :
        its \in SeqsUpTo(RunItems, MaxItems)}
    \cup
    {[BlankPage EXCEPT !.h1 = h, !.ogDescription = "One product",
                       !.anchors = as, !.imgs = ims, !.body = "<h1/>"] :
        h \in {"P1"},
        as \in SeqsUpTo(RunHrefs, MaxTags), ims \in SeqsUpTo(RunImgs, MaxTags)}

\* what fetch_page returns: None, an empty body, or the text of a page
Fetches ==
    {[html |-> NONE, page |-> BlankPage], [html |-> "", page |-> BlankPage]}
    \cup {[html |-> "<html>", page |-> p] : p \in RunPages}

Ok(ctype, h) == [ok |-> TRUE, ctype |-> ctype, hash |-> h]
Failed == [ok |-> FALSE, ctype |-> "", hash |-> 0]

RunResps == {Ok("image/jpeg", 7), Failed}

DownloadUrls == {U_JPG, U_JPG2, U_PAREN, U_FORMAT, U_BARE}
DownloadResps == {Ok("image/jpeg", 7), Ok("image/png", 7), Ok("text/html", 8), Failed}

(***************************************************************************)
(* download_file                                                           *)
(*                                                                         *)
(* A directory's downloaded files are a function from file name to the     *)
(* bytes written, and the bytes served for a URL are named by the URL.  A  *)
(* response is [ok, ctype, hash]: ok is FALSE for a transport error, a     *)
(* timeout or a non-2xx status, ctype is the content-type header and hash  *)
(* is hash(url) % 10000, which differs from process to process.            *)
(***************************************************************************)
\* the name derived from the URL, the content type and the hash
DeriveName(url, resp) ==
    LET fromUrl == Basename(UrlPath(url))
        typed == IF SplitExt(fromUrl).ext # "" THEN fromUrl
                 ELSE IF Contains(resp.ctype, "jpeg") \/ Contains(resp.ctype, "jpg")
                      THEN fromUrl \o ".jpg"
                 ELSE IF Contains(resp.ctype, "png") THEN fromUrl \o ".png"
                 ELSE IF Contains(resp.ctype, "gif") THEN fromUrl \o ".gif"
                 ELSE fromUrl \o ".jpg"
    IN IF typed = "" \/ typed = ".jpg"
       THEN "image-" \o ToString(resp.hash) \o ".jpg"
       ELSE typed

(***************************************************************************)
(* memo holds two tables of pure functions, computed once in the initial   *)
(* state and never changed: the extraction of every page of the runs and   *)
(* the file name derived for every URL and response.                       *)
(***************************************************************************)
VARIABLE memo

ExtractTable == [p \in RunPages |-> Extract(p)]

Extracted(page) == memo.extract[page]

DerivedNameTable ==
    [u \in DownloadUrls \cup {U_JPG, U_JPG2, U_PNG}, r \in DownloadResps \cup RunResps |->
        LET n == DeriveName(u, r) IN [filename |-> n, split |-> SplitExt(n)]]

Memo == [extract |-> ExtractTable, names |-> DerivedNameTable]

DerivedName(url, resp) == memo.names[url, resp]

\* FreeName with "if" for "while": the numbered name is not checked again
FreeNameIf(files, base_name, ext, filename, counter) ==
    IF filename \in DOMAIN files
    THEN [filename |-> base_name \o "(" \o ToString(counter) \o ")" \o ext,
          counter |-> counter + 1]
    ELSE [filename |-> filename, counter |-> counter]

\* the loop "while filepath.exists()"
RECURSIVE FreeName(_, _, _, _, _)
FreeName(files, base_name, ext, filename, counter) ==
    IF filename \in DOMAIN files
    THEN FreeName(files, base_name, ext,
                  base_name \o "(" \o ToString(counter) \o ")" \o ext, counter + 1)
    ELSE [filename |-> filename, counter |-> counter]

\* returns the file name (NONE on failure) and the directory's files after
download_file(url, dirExists, files, resp) ==
    IF ~resp.ok THEN [filename |-> NONE, files |-> files]
    ELSE LET first == DerivedName(url, resp)
             free == FreeName(files, first.split.root, first.split.ext,
                              first.filename, 1)
         IN IF ~dirExists
            THEN [filename |-> NONE, files |-> files]
            ELSE [filename |-> free.filename,
                  files |-> Put(files, free.filename, url)]

(***************************************************************************)
(* The output directory.                                                   *)
(***************************************************************************)
SUBDIRS == <<"block_diagrams", "design_resources", "documentation", "images",
             "markdowns", "other", "software_tools", "tables", "trainings">>

\* dir_files: the placeholder files of each subdirectory
dir_files(subdir) ==
    CASE subdir = "block_diagrams" -> <<"block_diagram_mappings.json">>
      [] subdir = "markdowns" -> <<>>
      [] subdir = "tables" -> <<"metadata.json", "products.json">>
      [] OTHER -> <<"metadata.json">>

Range(seq) == {seq[i] : i \in 1..Len(seq)}

\* every JSON file of the layout, as <<subdir, filename>>
JsonPaths ==
    UNION {{<<d, f>> : f \in Range(dir_files(d))} : d \in Range(SUBDIRS)}

images_metadata_file == <<"images", "metadata.json">>
products_file == <<"tables", "products.json">>
block_diagrams_mappings_file == <<"block_diagrams", "block_diagram_mappings.json">>

\* filepath.parent
ParentOf(path) == path[1]


(***************************************************************************)
(* The state of an output directory, fs:                                   *)
(*   dirs   the subdirectories that exist                                  *)
(*   json   for every JSON path of the layout, [st, type, list, dict]:     *)
(*          st is "absent", "corrupt" (json.load raises) or "ok", and an   *)
(*          "ok" file holds a list (type "list") or a mapping ("dict")     *)
(*   blobs  the downloaded files of images/ and block_diagrams/            *)
(*   md     the two Markdown files, [st, text]                             *)
(***************************************************************************)
Absent == [st |-> "absent", type |-> "none", list |-> <<>>, dict |-> EmptyDict]
Corrupted == [st |-> "corrupt", type |-> "none", list |-> <<>>, dict |-> EmptyDict]
ListFile(list) == [st |-> "ok", type |-> "list", list |-> list, dict |-> EmptyDict]
DictFile(dict) == [st |-> "ok", type |-> "dict", list |-> <<>>, dict |-> dict]

MdNames == {"category_overview.md", "product_details.md"}
BlobDirs == {"images", "block_diagrams"}
NoFiles == [n \in {} |-> NONE]

EmptyFs ==
    [dirs |-> {},
     json |-> [p \in JsonPaths |-> Absent],
     blobs |-> [d \in BlobDirs |-> NoFiles],
     md |-> [n \in MdNames |-> [st |-> "absent", text |-> ""]]]

(***************************************************************************)
(* create_folder_structure                                                 *)
(***************************************************************************)
\* initial_content = {} if filename == 'products.json' else []
Placeholder(path) ==
    IF path[2] = "products.json" THEN DictFile(EmptyDict) ELSE ListFile(<<>>)

subdirs_to_create(output_dir_name) ==
    IF output_dir_name = "category" THEN <<"markdowns", "tables">> ELSE SUBDIRS

\* create_folder_structure without "if not file_path.exists()"
create_folder_structure_overwriting(output_dir_name, dir) ==
    LET made == Range(subdirs_to_create(output_dir_name))
    IN [dir EXCEPT
          !.dirs = @ \cup made,
          !.json = [p \in JsonPaths |->
                      IF ParentOf(p) \in made THEN Placeholder(p) ELSE dir.json[p]]]

create_folder_structure(output_dir_name, dir) ==
    LET made == Range(subdirs_to_create(output_dir_name))
    IN [dir EXCEPT
          !.dirs = @ \cup made,
          !.json = [p \in JsonPaths |->
                      IF ParentOf(p) \in made /\ dir.json[p].st = "absent"
                      THEN Placeholder(p) ELSE dir.json[p]]]

(***************************************************************************)
(* load_existing_metadata, load_existing_products, save_json               *)
(***************************************************************************)
load_existing_metadata(dir, path) ==
    IF dir.json[path].st = "ok" THEN dir.json[path].list ELSE <<>>

load_existing_products(dir, path) ==
    IF dir.json[path].st = "ok" THEN dir.json[path].dict ELSE EmptyDict

\* filepath.parent.mkdir(parents=True, exist_ok=True), then the dump
save_json(dir, content, path) ==
    [dir EXCEPT !.dirs = @ \cup {ParentOf(path)}, !.json[path] = content]

(***************************************************************************)
(* save_markdown: the file name and section title depend on the page type; *)
(* the text is the section header followed by the rendering of the page's  *)
(* selected subtree, page.body.                                            *)
(***************************************************************************)
MarkdownName(page_type) ==
    IF page_type = "category" THEN "category_overview.md" ELSE "product_details.md"

MarkdownText(page, page_type) ==
    "## " \o (IF page_type = "category" THEN "Category" ELSE "Product Details")
          \o "\n\n" \o page.body \o "\n"

save_markdown(dir, page, page_type) ==
    [dir EXCEPT !.md[MarkdownName(page_type)] =
                    [st |-> "ok", text |-> MarkdownText(page, page_type)]]

(***************************************************************************)
(* scrape(): the download loops and the merge                              *)
(***************************************************************************)
AssetRecord(output_dir_name, subdir, filename, url) ==
    [name |-> filename,
     url |-> url,
     file_path |-> output_dir_name \o "/" \o subdir \o "/" \o filename,
     version |-> NONE, date |-> NONE, language |-> NONE, description |-> NONE]

\* {item['url'] for item in metadata}
UrlsOf(metadata) == {metadata[i].url : i \in 1..Len(metadata)}

\* one iteration of a download loop; acc is [dir, new, calls] and resp the
\* response the download of this URL gets
DownloadStep(output_dir_name, subdir, existing_urls, acc, url, resp) ==
    IF url \in existing_urls THEN acc
    ELSE LET got == download_file(url, subdir \in acc.dir.dirs,
                                  acc.dir.blobs[subdir], resp)
             call == [url |-> url, subdir |-> subdir, filename |-> got.filename]
         IN [dir |-> [acc.dir EXCEPT !.blobs[subdir] = got.files],
             new |-> IF got.filename # NONE
                     THEN Append(acc.new,
                                 AssetRecord(output_dir_name, subdir, got.filename, url))
                     ELSE acc.new,
             calls |-> Append(acc.calls, call)]

RECURSIVE DownloadLoop(_, _, _, _, _, _, _)
DownloadLoop(output_dir_name, subdir, existing_urls, urls, resps, i, acc) ==
    IF i > Len(urls) THEN acc
    ELSE DownloadLoop(output_dir_name, subdir, existing_urls, urls, resps, i + 1,
                      DownloadStep(output_dir_name, subdir, existing_urls, acc,
                                   urls[i], resps[i]))

\* Merge persisting only the new records of each asset list
MergeOverwriting(output_dir_name, dir, page, found, img_resps, bd_resps) ==
    LET existing_images_metadata == load_existing_metadata(dir, images_metadata_file)
        existing_products == load_existing_products(dir, products_file)
        existing_block_diagrams_metadata ==
            load_existing_metadata(dir, block_diagrams_mappings_file)
        imgs == DownloadLoop(output_dir_name, "images",
                             UrlsOf(existing_images_metadata), found.images,
                             img_resps, 1,
                             [dir |-> dir, new |-> <<>>, calls |-> <<>>])
        bds == DownloadLoop(output_dir_name, "block_diagrams",
                            UrlsOf(existing_block_diagrams_metadata),
                            found.block_diagrams, bd_resps, 1,
                            [dir |-> imgs.dir, new |-> <<>>, calls |-> imgs.calls])
        saved1 == save_json(bds.dir, ListFile(imgs.new), images_metadata_file)
        saved2 == save_json(saved1, ListFile(bds.new), block_diagrams_mappings_file)
        merged == Put(Update(existing_products, found.products),
                      "images", [assets |-> imgs.new])
        saved3 == save_json(saved2, DictFile(merged), products_file)
    IN [dir |-> save_markdown(saved3, page, found.page_type),
        calls |-> bds.calls]

\* lines 469-553: everything after the extraction.  img_resps and bd_resps
\* give the response of the download at each position of the two URL lists
\* that is not skipped.  The value stored under the key 'images' is the list
\* all_images_metadata itself; it is held in a one-field record so that the
\* values of the product table can be compared with one another.
Merge(output_dir_name, dir, page, found, img_resps, bd_resps) ==
    LET existing_images_metadata == load_existing_metadata(dir, images_metadata_file)
        existing_products == load_existing_products(dir, products_file)
        existing_block_diagrams_metadata ==
            load_existing_metadata(dir, block_diagrams_mappings_file)
        imgs == DownloadLoop(output_dir_name, "images",
                             UrlsOf(existing_images_metadata), found.images,
                             img_resps, 1,
                             [dir |-> dir, new |-> <<>>, calls |-> <<>>])
        bds == DownloadLoop(output_dir_name, "block_diagrams",
                            UrlsOf(existing_block_diagrams_metadata),
                            found.block_diagrams, bd_resps, 1,
                            [dir |-> imgs.dir, new |-> <<>>, calls |-> imgs.calls])
        all_images_metadata == existing_images_metadata \o imgs.new
        all_block_diagrams_metadata == existing_block_diagrams_metadata \o bds.new
        saved1 == save_json(bds.dir, ListFile(all_images_metadata), images_metadata_file)
        saved2 == save_json(saved1, ListFile(all_block_diagrams_metadata),
                            block_diagrams_mappings_file)
        merged == Put(Update(existing_products, found.products),
                      "images", [assets |-> all_images_metadata])
        saved3 == save_json(saved2, DictFile(merged), products_file)
    IN [dir |-> save_markdown(saved3, page, found.page_type),
        calls |-> bds.calls]

\* scrape() without "return False": a failed fetch is processed as a page
\* on which nothing is found
scrape_without_return(output_dir_name, dir, fetched, img_resps, bd_resps) ==
    LET scaffolded == create_folder_structure(output_dir_name, dir)
        nothing == [page_type |-> "product_detail", products |-> EmptyDict,
                    images |-> <<>>, block_diagrams |-> <<>>]
        found == IF Falsy(fetched.html) THEN nothing ELSE Extracted(fetched.page)
        done == Merge(output_dir_name, scaffolded, fetched.page, found,
                      img_resps, bd_resps)
    IN [ret |-> TRUE, dir |-> done.dir, calls |-> done.calls]

\* scrape(): html is NONE when fetch_page returned None, "" for an empty
\* body, and otherwise the page parsed from it
scrape(output_dir_name, dir, fetched, img_resps, bd_resps) ==
    LET scaffolded == create_folder_structure(output_dir_name, dir)
    IN IF Falsy(fetched.html)
       THEN [ret |-> FALSE, dir |-> scaffolded, calls |-> <<>>]
       ELSE LET found == Extracted(fetched.page)
                done == Merge(output_dir_name, scaffolded, fetched.page, found,
                              img_resps, bd_resps)
            IN [ret |-> TRUE, dir |-> done.dir, calls |-> done.calls]


\* main(): sys.exit(0 if success else 1)
ExitStatus(success) == IF success THEN 0 ELSE 1

(***************************************************************************)
(* State.                                                                  *)
(*   outName      the name of the output directory (--out)                 *)
(*   fs           the output directory                                     *)
(*   last         the last operation: its kind, what the fetch returned,   *)
(*                the page, the value returned, the Downloader calls (and  *)
(*                the response of a lone download), and whether it is a    *)
(*                rerun: a completed run on the page of the run directly   *)
(*                before it, which completed with every download succeeded *)
(*   doc, out     a page given to the extractors and what they returned    *)
(***************************************************************************)
VARIABLES outName, fs, last, doc, out

vars == <<outName, fs, last, doc, out, memo>>

NoOp == [op |-> "none", html |-> NONE, page |-> BlankPage, ret |-> FALSE,
         calls |-> <<>>, resp |-> Failed, rerun |-> FALSE]

\* every Downloader call of the last operation succeeded
Clean(op) == \A i \in 1..Len(op.calls) : op.calls[i].filename # NONE

NoOut == [done |-> FALSE, page_type |-> "", products |-> EmptyDict,
          images |-> <<>>, block_diagrams |-> <<>>]

OutNames == {"category", "part"}

(***************************************************************************)
(* The pipeline: runs of scrape() against one output directory.  The       *)
(* directory starts empty, or scaffolded by an earlier run with some of    *)
(* the JSON files a run reads made unreadable since.                       *)
(***************************************************************************)
ReadPaths == {images_metadata_file, block_diagrams_mappings_file, products_file}

Damage(dir, paths) ==
    [dir EXCEPT !.json = [p \in JsonPaths |->
                            IF p \in paths /\ dir.json[p].st = "ok"
                            THEN Corrupted ELSE dir.json[p]]]

PriorDirs(output_dir_name) ==
    {EmptyFs} \cup
    {Damage(create_folder_structure(output_dir_name, EmptyFs), paths) :
        paths \in SUBSET ReadPaths}

Init ==
    /\ outName \in OutNames
    /\ fs \in PriorDirs(outName)
    /\ last = NoOp
    /\ doc = BlankPage
    /\ out = NoOut
    /\ memo = Memo

\* the positions of a URL list at which the URL is not recorded
Unrecorded(urls, path) ==
    {i \in 1..Len(urls) : urls[i] \notin UrlsOf(load_existing_metadata(fs, path))}

\* the positions of the two URL lists of a fetch at which a run downloads
ToDownload(fetched) ==
    IF Falsy(fetched.html) THEN [i |-> {}, b |-> {}]
    ELSE [i |-> Unrecorded(Extracted(fetched.page).images, images_metadata_file),
          b |-> Unrecorded(Extracted(fetched.page).block_diagrams,
                           block_diagrams_mappings_file)]

Scrape ==
    \E fetched \in Fetches :
      \E img_resps \in [ToDownload(fetched).i -> RunResps],
         bd_resps \in [ToDownload(fetched).b -> RunResps] :
        LET run == scrape(outName, fs, fetched, img_resps, bd_resps)
        IN /\ fs' = run.dir
           /\ last' = [NoOp EXCEPT
                          !.op = "scrape", !.html = fetched.html,
                          !.page = fetched.page, !.ret = run.ret,
                          !.calls = run.calls,
                          !.rerun = /\ last.op = "scrape" /\ last.ret /\ run.ret
                                    /\ last.page = fetched.page /\ Clean(last)]
           /\ UNCHANGED <<outName, doc, out, memo>>

Next == Scrape

Spec == Init /\ [][Next]_vars


(***************************************************************************)
(* The extractors alone: a page is classified and given to the extractor   *)
(* scrape() selects for it.                                                *)
(***************************************************************************)
NoMemo == [extract |-> EmptyDict, names |-> EmptyDict]

InitExtract ==
    /\ doc \in ExtractPages
    /\ out = NoOut
    /\ outName = "part"
    /\ fs = EmptyFs
    /\ last = NoOp
    /\ memo = NoMemo

Returned(page_type, lists) ==
    [done |-> TRUE, page_type |-> page_type, products |-> lists.products,
     images |-> lists.images, block_diagrams |-> lists.block_diagrams]

ExtractListing ==
    /\ ~out.done
    /\ detect_page_type(doc) = "category"
    /\ out' = Returned("category", scrape_category_page(doc))
    /\ UNCHANGED <<outName, fs, last, doc, memo>>

ExtractDetail ==
    /\ ~out.done
    /\ detect_page_type(doc) # "category"
    /\ out' = Returned("product_detail", scrape_product_detail_page(doc))
    /\ UNCHANGED <<outName, fs, last, doc, memo>>

NextExtract == ExtractListing \/ ExtractDetail

SpecExtract == InitExtract /\ [][NextExtract]_vars

(***************************************************************************)
(* The downloader alone: download_file called on the images directory of   *)
(* a scaffolded output directory.                                          *)
(***************************************************************************)
InitDownload ==
    /\ outName \in OutNames
    /\ fs = create_folder_structure(outName, EmptyFs)
    /\ last = NoOp
    /\ doc = BlankPage
    /\ out = NoOut
    /\ memo = Memo

Download ==
    \E url \in DownloadUrls, resp \in DownloadResps :
      LET got == download_file(url, "images" \in fs.dirs, fs.blobs["images"], resp)
      IN /\ Cardinality(DOMAIN fs.blobs["images"]) < MaxFiles
         /\ fs' = [fs EXCEPT !.blobs["images"] = got.files]
         /\ last' = [NoOp EXCEPT !.op = "download", !.resp = resp,
                                 !.ret = (got.filename # NONE),
                                 !.calls = <<[url |-> url, subdir |-> "images",
                                              filename |-> got.filename]>>]
         /\ UNCHANGED <<outName, doc, out, memo>>

NextDownload == Download

SpecDownload == InitDownload /\ [][NextDownload]_vars

(***************************************************************************)
(* Scaffolding alone: create_folder_structure called on an output          *)
(* directory in which any of four subdirectories may exist, with each of   *)
(* their JSON files missing, unreadable or holding earlier data.           *)
(***************************************************************************)
PriorSubdirs == {"images", "markdowns", "other", "tables"}

EarlierAsset == AssetRecord("part", "images", "x.jpg", U_JPG)

EarlierContent(path) ==
    IF path[2] = "products.json"
    THEN DictFile(Put(EmptyDict, "images", [assets |-> <<EarlierAsset>>]))
    ELSE ListFile(<<EarlierAsset>>)

PriorContent(kind, path) ==
    CASE kind = "absent" -> Absent
      [] kind = "corrupt" -> Corrupted
      [] OTHER -> EarlierContent(path)

PriorsWith(ds) ==
    LET inside == {p \in JsonPaths : ParentOf(p) \in ds}
    IN {[EmptyFs EXCEPT !.dirs = ds,
                        !.json = [p \in JsonPaths |->
                                    IF p \in inside THEN PriorContent(kinds[p], p)
                                    ELSE Absent]] :
           kinds \in [inside -> {"absent", "corrupt", "data"}]}

ScaffoldPriors == UNION {PriorsWith(ds) : ds \in SUBSET PriorSubdirs}

InitScaffold ==
    /\ outName \in OutNames
    /\ fs \in ScaffoldPriors
    /\ last = NoOp
    /\ doc = BlankPage
    /\ out = NoOut
    /\ memo = NoMemo

CreateFolders ==
    /\ fs' = create_folder_structure(outName, fs)
    /\ last' = [NoOp EXCEPT !.op = "scaffold"]
    /\ UNCHANGED <<outName, doc, out, memo>>

NextScaffold == CreateFolders

SpecScaffold == InitScaffold /\ [][NextScaffold]_vars


(***************************************************************************)
(* Properties.                                                             *)
(***************************************************************************)
\* the list persisted at a path (empty when the file is missing or unreadable)
Persisted(dir, path) ==
    IF dir.json[path].st = "ok" THEN dir.json[path].list ELSE <<>>

\* the product table persisted in products.json
PersistedTable(dir) ==
    IF dir.json[products_file].st = "ok" THEN dir.json[products_file].dict
    ELSE EmptyDict

\* the asset list of a download directory
LedgerOf(subdir) ==
    IF subdir = "images" THEN images_metadata_file ELSE block_diagrams_mappings_file

\* how many records of a list carry the URL
Occurrences(list, url) == Cardinality({i \in 1..Len(list) : list[i].url = url})

\* the step is a run of scrape() that went past the fetch
CompletedRun == last'.op = "scrape" /\ last'.ret

\* C1: after any sequence of runs against one output directory, neither
\* images/metadata.json nor block_diagrams/block_diagram_mappings.json holds
\* two records with the same url.
NoDuplicateUrls ==
    \A path \in {images_metadata_file, block_diagrams_mappings_file} :
      \A url \in UrlsOf(Persisted(fs, path)) :
        Occurrences(Persisted(fs, path), url) = 1

\* the three collections a second run must leave as they were, and no
\* Downloader call for a URL the asset lists already record
SecondRunChangesNothing ==
    /\ fs'.json[images_metadata_file] = fs.json[images_metadata_file]
    /\ fs'.json[block_diagrams_mappings_file] = fs.json[block_diagrams_mappings_file]
    /\ fs'.json[products_file] = fs.json[products_file]
    /\ \A i \in 1..Len(last'.calls) :
         last'.calls[i].url
            \notin UrlsOf(Persisted(fs, LedgerOf(last'.calls[i].subdir)))

\* the step is a completed run on the page of the completed run before it
SamePageAgain ==
    /\ last.op = "scrape" /\ last.ret
    /\ CompletedRun
    /\ last'.page = last.page

AssetsMerged(path, urls) ==
    LET prior == Persisted(fs, path)
        post == Persisted(fs', path)
    IN /\ Len(post) >= Len(prior)
       /\ SubSeq(post, 1, Len(prior)) = prior
       /\ \A url \in Range(urls) \ UrlsOf(prior) : Occurrences(post, url) = 1

\* the product table after the merge: the prior value of every key the
\* extraction does not overwrite (the reserved key "images" aside, which the
\* merge rewrites), the extraction's value of every key it has
TableMerged(products) ==
    LET prior == PersistedTable(fs)
        post == PersistedTable(fs')
    IN /\ \A k \in (DOMAIN prior) \ ((DOMAIN products) \cup {"images"}) :
            k \in DOMAIN post /\ post[k] = prior[k]
       /\ \A k \in DOMAIN products :
            k \in DOMAIN post /\ post[k] = products[k]

\* C3: merge monotonicity of a completed run, for the product table and the
\* two asset lists: the table keeps every prior key the extraction does not
\* overwrite and has every key of the extraction with the extraction's value,
\* and each asset list is the prior list followed by every new URL of the
\* extraction exactly once.  The claim is read in its favour: only runs whose
\* downloads all succeeded are held to it.
MergeMonotone ==
    [][(CompletedRun /\ Clean(last')) =>
         /\ TableMerged(Extracted(last'.page).products)
         /\ AssetsMerged(images_metadata_file, Extracted(last'.page).images)
         /\ AssetsMerged(block_diagrams_mappings_file,
                         Extracted(last'.page).block_diagrams)]_vars

\* the empty placeholder of a path: {} for products.json, [] otherwise
EmptyPlaceholder(path) ==
    IF path = products_file
    THEN [st |-> "ok", type |-> "dict", list |-> <<>>, dict |-> EmptyDict]
    ELSE [st |-> "ok", type |-> "list", list |-> <<>>, dict |-> EmptyDict]

\* between the two states only scaffolding happened: existing files keep
\* their content, a missing file stays missing or becomes its placeholder,
\* no downloaded or Markdown file changes and only subfolders of the layout
\* are added
OnlyScaffolded ==
    /\ \A p \in JsonPaths :
         IF fs.json[p].st # "absent" THEN fs'.json[p] = fs.json[p]
         ELSE fs'.json[p] = Absent \/ fs'.json[p] = EmptyPlaceholder(p)
    /\ fs'.md = fs.md
    /\ fs'.blobs = fs.blobs
    /\ fs.dirs \subseteq fs'.dirs
    /\ fs'.dirs \ fs.dirs \subseteq Range(SUBDIRS)

\* C4: a run whose page fetch fails returns False (exit status non-zero),
\* calls the Downloader not once and leaves every metadata list, the
\* product table and the Markdown files as they were; only missing
\* subfolders and placeholder files may appear.
FetchFailureWritesNothing ==
    [][(last'.op = "scrape" /\ last'.html = NONE) =>
         /\ ~last'.ret
         /\ ExitStatus(last'.ret) # 0
         /\ last'.calls = <<>>
         /\ OnlyScaffolded]_vars

\* a failed fetch in a directory that holds recorded images and a Markdown file
FetchFailedOverData ==
    /\ last.op = "scrape" /\ last.html = NONE
    /\ Persisted(fs, images_metadata_file) # <<>>
    /\ \E n \in MdNames : fs.md[n].st = "ok"

\* C5: whenever the page fetch succeeds the run returns True and has written
\* both asset lists, the product table and the Markdown file, whatever the
\* downloads did and whatever JSON files were unreadable.
FetchedRunSucceeds ==
    (last.op = "scrape" /\ last.html # NONE) =>
        /\ last.ret
        /\ \A p \in ReadPaths : fs.json[p].st = "ok"
        /\ \E n \in MdNames : fs.md[n].st = "ok"

\* C6: in an output directory named "category", after a complete run only
\* markdowns/ and tables/ exist.
CategoryDirHasTwoSubdirs ==
    (outName = "category" /\ last.op = "scrape" /\ last.ret) =>
        /\ fs.dirs \subseteq {"markdowns", "tables"}
        /\ \A p \in JsonPaths :
             fs.json[p].st # "absent" => ParentOf(p) \in {"markdowns", "tables"}

\* C7: create_folder_structure leaves every existing file as it is, creates
\* only missing subfolders and missing placeholder files, and a second call
\* changes nothing.
ScaffoldingKeepsFiles ==
    [][(last'.op = "scaffold") =>
         /\ OnlyScaffolded
         /\ \A p \in JsonPaths :
              (fs.json[p].st = "absent" /\ fs'.json[p] # Absent)
                 => ParentOf(p) \in fs'.dirs
         /\ (last.op = "scaffold" => fs' = fs)]_vars

\* scaffolding that kept an unreadable file and a file with data and created
\* a placeholder
ScaffoldedOverData ==
    /\ last.op = "scaffold"
    /\ fs.json[products_file].st = "corrupt"
    /\ fs.json[images_metadata_file].list # <<>>
    /\ fs.json[<<"tables", "metadata.json">>] = EmptyPlaceholder(<<"tables", "metadata.json">>)

\* the URL contains "logo", whatever the case
LogoUrl(url) ==
    \E i \in 1..(Len(url) - 3) :
      /\ SubSeq(url, i, i) \in {"l", "L"}
      /\ SubSeq(url, i + 1, i + 1) \in {"o", "O"}
      /\ SubSeq(url, i + 2, i + 2) \in {"g", "G"}
      /\ SubSeq(url, i + 3, i + 3) \in {"o", "O"}

\* C8: no logo URL is in the image list or the diagram list an extractor
\* returns.
NoLogoListed ==
    out.done =>
        \A url \in Range(out.images) \cup Range(out.block_diagrams) : ~LogoUrl(url)

\* the path of the URL ends in .png, whatever the case
PngUrl(url) ==
    LET path == UrlPath(url)
        n == Len(path)
    IN /\ n >= 4
       /\ SubSeq(path, n - 3, n - 3) = "."
       /\ SubSeq(path, n - 2, n - 2) \in {"p", "P"}
       /\ SubSeq(path, n - 1, n - 1) \in {"n", "N"}
       /\ SubSeq(path, n, n) \in {"g", "G"}

AnchorUrls == {UrlJoin(SelfUrl, href) : href \in Range(AllLinks(doc))}

\* the URLs of the <img> elements the extractor that ran looks at, logos and
\* (for the Detail Extractor) images off the CDN left out
ImgUrls ==
    LET elems == IF out.page_type = "category"
                 THEN {it.img : it \in {i \in Range(doc.items) : i.link # NONE /\ i.img.tag}}
                 ELSE {e \in Range(AllImgs(doc)) : ~Falsy(ImgSrc(e)) /\ OnCdn(ImgSrc(e))}
    IN {u \in {UrlJoin(SelfUrl, ImgSrc(e)) : e \in {x \in elems : ~Falsy(ImgSrc(x))}} :
          ~LogoUrl(u)}

Numbered(name, k) ==
    SplitExt(name).root \o "(" \o ToString(k) \o ")" \o SplitExt(name).ext

\* C10: download_file never writes to a name that exists: it writes the
\* derived name when that is free and otherwise name(k).ext for the smallest
\* free k >= 1, found within as many steps as the directory has files; the
\* files that were there keep their bytes.
CollisionFreeDownload ==
    [][(last'.op = "download") =>
         LET old == fs.blobs["images"]
             new == fs'.blobs["images"]
             call == last'.calls[1]
             first == DeriveName(call.url, last'.resp)
         IN IF call.filename = NONE THEN new = old
            ELSE /\ call.filename \notin DOMAIN old
                 /\ DOMAIN new = (DOMAIN old) \cup {call.filename}
                 /\ new[call.filename] = call.url
                 /\ \A n \in DOMAIN old : new[n] = old[n]
                 /\ IF first \notin DOMAIN old THEN call.filename = first
                    ELSE \E k \in 1..Cardinality(DOMAIN old) :
                           /\ call.filename = Numbered(first, k)
                           /\ \A j \in 1..(k - 1) : Numbered(first, j) \in DOMAIN old]_vars

\* two assets with the same base name, downloaded one after the other and
\* both kept
CollisionReached ==
    /\ last.op = "download"
    /\ last.calls[1].url = U_JPG2
    /\ DOMAIN fs.blobs["images"] = {"x.jpg", "x(1).jpg"}
    /\ fs.blobs["images"]["x.jpg"] = U_JPG
    /\ fs.blobs["images"]["x(1).jpg"] = U_JPG2

\* the number of a.grid-item-link anchors of the page given to the extractors
LinkAnchors ==
    Len(SelectSeq(doc.items, LAMBDA it : it.link # NONE)) + doc.extraLinks

\* the lists an extractor returned, as the extraction scrape() keeps
ListsOf(lists) ==
    [products |-> lists.products, images |-> lists.images,
     block_diagrams |-> lists.block_diagrams]

\* C11: the classification is one of two values, Listing when the page has a
\* product-list container whatever its link count, and without the container
\* Listing exactly when it has more than one grid-item-link anchor and Detail
\* when it has one or none; the extractor that ran is the one of that type.
ClassifiedAndDispatched ==
    out.done =>
        /\ out.page_type \in {"category", "product_detail"}
        /\ out.page_type = "category" <=> (doc.productList \/ LinkAnchors > 1)
        /\ ListsOf(out) = IF doc.productList \/ LinkAnchors > 1
                          THEN ListsOf(scrape_category_page(doc))
                          ELSE ListsOf(scrape_product_detail_page(doc))

\* a page without the container and with exactly one grid-item-link anchor,
\* classified Detail and given to the Detail Extractor
OneLinkIsDetail ==
    /\ out.done
    /\ ~doc.productList
    /\ LinkAnchors = 1
    /\ Len(doc.items) = 1
    /\ out.page_type = "product_detail"

\* no element of the list occurs in it twice
NoRepeat(list) ==
    \A i, j \in 1..Len(list) : list[i] = list[j] => i = j

\* C12: the image list and the diagram list the Detail Extractor returns
\* have no URL in common, and neither holds a URL twice.
DetailListsDisjoint ==
    (out.done /\ out.page_type = "product_detail") =>
        /\ Range(out.images) \cap Range(out.block_diagrams) = {}
        /\ NoRepeat(out.images)
        /\ NoRepeat(out.block_diagrams)

=============================================================================
